---- MODULE Spec2Model ----
(***************************************************************************)
(* Model of the exam clarity pipeline: exam_pipeline.py (ExamPipeline) and *)
(* the /analyze handler of app.py.                                         *)
(*                                                                         *)
(* Texts (question texts, rephrasings) are sequences of one-character      *)
(* strings.  A Scorer response is a sequence of lexemes: the literals      *)
(* "Score:" and "Justification:", numerals (strings of decimal digits),    *)
(* the blanks " " and "\n", and the word "x"; the text of the response is  *)
(* the concatenation of its lexemes.  Similarity and relevance scores are  *)
(* in hundredths, temperatures in tenths.                                  *)
(***************************************************************************)
EXTENDS Integers, Sequences, FiniteSets, TLC

VARIABLES
    pc,             \* position of ExamPipeline.run
    file_bytes,     \* run's argument: [len, pdf]
    questions,      \* run: the list get_questions returned
    q_index,        \* run: position of the for loop over questions (1-based)
    results,        \* run: the result list
    original,       \* run: q.get("question", "")
    score,          \* run: score of the current question
    justification,  \* run: justification of the current question
    final,          \* run: final version of the current question
    status,         \* run: status of the current question
    attempt,        \* run: the inner loop's attempt index
    candidate,      \* run: the last value rephrase returned
    bi_encoder,     \* module global, None until validate creates it
    cross_encoder,  \* module global, None until validate creates it
    txt,            \* the Scorer's response for the current question
    rephrase_log,   \* the generation requests rephrase made for the current question
    gate_calls,     \* number of validate calls that returned for the current question
    gate_accepts,   \* number of them that returned True
    last_gate,      \* the last validate call: its arguments, scores and result
    calls,          \* the calls run made before its loop, then those of the current question
    loads,          \* how many times each model global was constructed
    response        \* the /analyze handler: whether it runs, and what it rendered

vars == <<pc, file_bytes, questions, q_index, results, original, score,
          justification, final, status, attempt, candidate, bi_encoder,
          cross_encoder, txt, rephrase_log, gate_calls, gate_accepts, last_gate,
          calls, loads, response>>

\* what a validate call made outside run leaves alone
runVars == <<pc, file_bytes, questions, q_index, results, original, score,
             justification, final, status, attempt, candidate, txt,
             rephrase_log, calls, response>>

-----------------------------------------------------------------------------
(* Bounds of the model *)

\* longest question list an Extractor response holds
MaxQuestions == 2
\* longest text handed to validate on its own
MaxLen == 2
\* longest Scorer response, in lexemes
MaxRespLen == 4
\* most validate calls made on one pair when validate is called on its own
MaxValidateCalls == 2

-----------------------------------------------------------------------------
(* Program constants *)

EXTRACT_MODEL == "llama-3.1-8b-instant"
SCORE_MODEL == "llama-3.3-70b-versatile"
REPHRASE_MODEL == "llama-3.1-8b-instant"

None == "None"

MAX_PDF_SIZE == 10 * 1024 * 1024
MAX_OCR_PIXELS == 12000000
MIN_PAGE_TEXT == 50
\* run with one attempt fewer
MAX_ATTEMPTS_OneLess == 6 - 1
MAX_ATTEMPTS == 6
SCORE_THRESHOLD == 20
\* 0.2 and 0.1, in tenths
BASE_TEMPERATURE == 2
TEMPERATURE_STEP == 1
\* 0.8 and 0.75, in hundredths
BI_THRESHOLD == 80
CROSS_THRESHOLD == 75

OriginalKept == "Original Kept"
Rephrased == "Rephrased"
ManualReview == "Manual Review Required"
CouldNotParse == <<"Could not parse score.">>

-----------------------------------------------------------------------------
(* Texts: str.strip and str.lower *)

Chars == {"a", "A", "b", " "}

IsSpace(c) == c \in {" ", "\n"}

RECURSIVE lstrip(_)
lstrip(s) ==
    IF s = <<>> THEN s
    ELSE IF IsSpace(Head(s)) THEN lstrip(Tail(s)) ELSE s

RECURSIVE rstrip(_)
rstrip(s) ==
    IF s = <<>> THEN s
    ELSE IF IsSpace(s[Len(s)]) THEN rstrip(SubSeq(s, 1, Len(s) - 1)) ELSE s

strip(s) == rstrip(lstrip(s))

lower_char(c) ==
    CASE c = "A" -> "a"
      [] c = "B" -> "b"
      [] OTHER -> c

lower(s) == [i \in 1..Len(s) |-> lower_char(s[i])]

\* all sequences over S of length at most n
RECURSIVE SeqsUpTo(_, _)
SeqsUpTo(S, n) ==
    IF n = 0 THEN {<<>>}
    ELSE LET shorter == SeqsUpTo(S, n - 1)
         IN  shorter \cup {Append(s, c) : s \in {t \in shorter : Len(t) = n - 1}, c \in S}

Texts == SeqsUpTo(Chars, MaxLen)

-----------------------------------------------------------------------------
(* score_question: the two regular expressions over a Scorer response *)

Numerals == {"0", "20", "21"}
Lexemes == {"Score:", "Justification:", " ", "\n", "x"} \cup Numerals

ScorerTexts == SeqsUpTo(Lexemes, MaxRespLen)

NumWidth(lex) == IF lex = "0" THEN 1 ELSE 2
NumValue(lex) ==
    CASE lex = "0" -> 0
      [] lex = "20" -> 20
      [] lex = "21" -> 21

Pow10(n) == IF n = 1 THEN 10 ELSE 100

\* int(): the value of a run of numerals read as one decimal string
RECURSIVE int(_)
int(digits) ==
    IF digits = <<>> THEN 0
    ELSE LET last == digits[Len(digits)]
         IN  int(SubSeq(digits, 1, Len(digits) - 1)) * Pow10(NumWidth(last))
             + NumValue(last)

\* the first position at or after i that holds no blank (Len + 1 if none): \s*
RECURSIVE SkipSpace(_, _)
SkipSpace(t, i) ==
    IF i <= Len(t) /\ IsSpace(t[i]) THEN SkipSpace(t, i + 1) ELSE i

\* the last position of the run of numerals that starts at i: \d+
RECURSIVE DigitsEnd(_, _)
DigitsEnd(t, i) ==
    IF i + 1 <= Len(t) /\ t[i + 1] \in Numerals THEN DigitsEnd(t, i + 1) ELSE i

\* the last position of the line that position i is on: .+
RECURSIVE LineEnd(_, _)
LineEnd(t, i) ==
    IF i + 1 <= Len(t) /\ t[i + 1] # "\n" THEN LineEnd(t, i + 1) ELSE i

\* a search's result: no match (the None that re.search returns), or group 1
NoMatch == [found |-> FALSE, group |-> <<>>]
Match(g) == [found |-> TRUE, group |-> g]

\* whether r"Score:\s*(\d+)" matches at position p
ScoreMatchAt(t, p) ==
    /\ t[p] = "Score:"
    /\ SkipSpace(t, p + 1) <= Len(t)
    /\ t[SkipSpace(t, p + 1)] \in Numerals

\* re.search(r"Score:\s*(\d+)", txt): the leftmost match
search_score(t) ==
    LET hits == {p \in 1..Len(t) : ScoreMatchAt(t, p)}
    IN  IF hits = {} THEN NoMatch
        ELSE LET p == CHOOSE h \in hits : \A g \in hits : h <= g
                 d == SkipSpace(t, p + 1)
             IN  Match(SubSeq(t, d, DigitsEnd(t, d)))

\* the starts \s* can leave to (.+) after "Justification:" at p: any position
\* reached over blanks alone that holds a character other than a newline
GroupStarts(t, p) ==
    {g \in (p + 1)..Len(t) :
        /\ \A k \in (p + 1)..(g - 1) : IsSpace(t[k])
        /\ t[g] # "\n"}

\* re.search(r"Justification:\s*(.+)", txt): the leftmost match; \s* is greedy,
\* so the group starts at the latest start that still matches
search_justification(t) ==
    LET hits == {p \in 1..Len(t) : t[p] = "Justification:" /\ GroupStarts(t, p) # {}}
    IN  IF hits = {} THEN NoMatch
        ELSE LET p == CHOOSE h \in hits : \A g \in hits : h <= g
                 s == CHOOSE g \in GroupStarts(t, p) : \A h \in GroupStarts(t, p) : h <= g
             IN  Match(SubSeq(t, s, LineEnd(t, s)))

\* score_question with the justification looked up outside the try block's reach:
\* a response with a score and no justification keeps its score
score_question_KeepsScore(t) ==
    IF ~search_score(t).found
    THEN [score |-> 0, justification |-> CouldNotParse]
    ELSE [score |-> int(search_score(t).group),
          justification |-> IF search_justification(t).found
                            THEN strip(search_justification(t).group)
                            ELSE <<>>]

\* score_question, given the Scorer's response t: .group(1) of a search that
\* found nothing raises inside the try block, whose handler returns the fallback
score_question(t) ==
    IF ~search_score(t).found \/ ~search_justification(t).found
    THEN [score |-> 0, justification |-> CouldNotParse]
    ELSE [score |-> int(search_score(t).group),
          justification |-> strip(search_justification(t).group)]

-----------------------------------------------------------------------------
(* rephrase *)

\* rephrase with the attempt index left out of the temperature
dynamic_temp_Flat(k) == BASE_TEMPERATURE

\* dynamic_temp = 0.2 + (attempt * 0.1), in tenths
dynamic_temp(k) == BASE_TEMPERATURE + (k * TEMPERATURE_STEP)

\* rephrase, given the generator's reply content: the request it sends and the
\* stripped reply it returns
rephrase(question, sc, just, k, content) ==
    [request |-> [model |-> REPHRASE_MODEL,
                  temperature |-> dynamic_temp(k),
                  retry_instruction |-> (k > 0)],
     candidate |-> strip(content)]

-----------------------------------------------------------------------------
(* validate *)

\* the values the two models return for a pair, in hundredths
BiScores == {BI_THRESHOLD - 1, BI_THRESHOLD}
CrossScores == {CROSS_THRESHOLD - 1, CROSS_THRESHOLD}

\* a model global constructed on every call
MustLoad_Always(global) == TRUE

\* if bi_encoder is None / if cross_encoder is None
MustLoad(global) == global = None

\* the lazy initialisation of a model global
Loaded(global, model) == IF MustLoad(global) THEN model ELSE global

\* the number of constructions of a model global after one more validate call
Constructed(n, global) == n + (IF MustLoad(global) THEN 1 ELSE 0)

\* validate comparing the stripped texts without lower-casing them
validate_CaseSensitive(orig, cand, bi, cross) ==
    IF strip(orig) = strip(cand)
    THEN [result |-> FALSE, bi_used |-> FALSE, cross_used |-> FALSE]
    ELSE IF bi < BI_THRESHOLD
    THEN [result |-> FALSE, bi_used |-> TRUE, cross_used |-> FALSE]
    ELSE IF cross < CROSS_THRESHOLD
    THEN [result |-> FALSE, bi_used |-> TRUE, cross_used |-> TRUE]
    ELSE [result |-> TRUE, bi_used |-> TRUE, cross_used |-> TRUE]

\* validate rejecting a similarity of exactly 0.80
validate_StrictBi(orig, cand, bi, cross) ==
    IF lower(strip(orig)) = lower(strip(cand))
    THEN [result |-> FALSE, bi_used |-> FALSE, cross_used |-> FALSE]
    ELSE IF bi <= BI_THRESHOLD
    THEN [result |-> FALSE, bi_used |-> TRUE, cross_used |-> FALSE]
    ELSE IF cross < CROSS_THRESHOLD
    THEN [result |-> FALSE, bi_used |-> TRUE, cross_used |-> TRUE]
    ELSE [result |-> TRUE, bi_used |-> TRUE, cross_used |-> TRUE]

\* validate without the comparison of the two texts
validate_NoExactCheck(orig, cand, bi, cross) ==
    IF bi < BI_THRESHOLD
    THEN [result |-> FALSE, bi_used |-> TRUE, cross_used |-> FALSE]
    ELSE IF cross < CROSS_THRESHOLD
    THEN [result |-> FALSE, bi_used |-> TRUE, cross_used |-> TRUE]
    ELSE [result |-> TRUE, bi_used |-> TRUE, cross_used |-> TRUE]

\* validate's decision, given the scores bi and cross that the bi-encoder and the
\* cross-encoder give the pair; bi_used and cross_used tell which were computed
validate(orig, cand, bi, cross) ==
    IF lower(strip(orig)) = lower(strip(cand))
    THEN [result |-> FALSE, bi_used |-> FALSE, cross_used |-> FALSE]
    ELSE IF bi < BI_THRESHOLD
    THEN [result |-> FALSE, bi_used |-> TRUE, cross_used |-> FALSE]
    ELSE IF cross < CROSS_THRESHOLD
    THEN [result |-> FALSE, bi_used |-> TRUE, cross_used |-> TRUE]
    ELSE [result |-> TRUE, bi_used |-> TRUE, cross_used |-> TRUE]

\* what a validate call leaves behind: its arguments, the scores and the decision
GateCall(orig, cand, bi, cross) ==
    [original |-> orig, candidate |-> cand, bi_score |-> bi, cross_score |-> cross]
    @@ validate(orig, cand, bi, cross)

\* validate returning False from the call that constructs a model
validate_call_ColdMiss(bi_g, cross_g, orig, cand, bi, cross) ==
    [bi_encoder |-> Loaded(bi_g, "SentenceTransformer"),
     cross_encoder |-> Loaded(cross_g, "CrossEncoder"),
     call |-> IF MustLoad(bi_g) \/ MustLoad(cross_g)
              THEN [GateCall(orig, cand, bi, cross) EXCEPT !.result = FALSE]
              ELSE GateCall(orig, cand, bi, cross)]

\* one validate call made when the globals are bi_g and cross_g: the globals it
\* leaves, and its record
validate_call(bi_g, cross_g, orig, cand, bi, cross) ==
    [bi_encoder |-> Loaded(bi_g, "SentenceTransformer"),
     cross_encoder |-> Loaded(cross_g, "CrossEncoder"),
     call |-> GateCall(orig, cand, bi, cross)]

-----------------------------------------------------------------------------
(* extract_text, get_questions *)

\* dict.get(key, default) on a record
Get(d, key, default) == IF key \in DOMAIN d THEN d[key] ELSE default

\* a page: the length of its stripped digital text, the size of its pixmap at
\* 150 dpi in pixels, and what OCR makes of the pixmap
Page(n, px, ocr) == [text_len |-> n, pixels |-> px, ocr |-> ocr]
OcrRaises == "TesseractError"

\* a document: its length in bytes, whether fitz opens it, and its pages
Unreadable(n) == [len |-> n, readable |-> FALSE, pages |-> <<>>]
Pdf(n, pages) == [len |-> n, readable |-> TRUE, pages |-> pages]

\* the documents that stop run before the Extractor is called
EmptyDocuments ==
    {Unreadable(0),
     Unreadable(1),
     Pdf(1, <<>>),
     Pdf(1, <<Page(0, MAX_OCR_PIXELS + 1, "scan")>>),
     Pdf(1, <<Page(MIN_PAGE_TEXT - 1, MAX_OCR_PIXELS, "")>>),
     Pdf(1, <<Page(0, MAX_OCR_PIXELS, OcrRaises)>>),
     Pdf(MAX_PDF_SIZE + 1, <<Page(MIN_PAGE_TEXT, MAX_OCR_PIXELS, "")>>)}

Documents ==
    EmptyDocuments \cup {Pdf(MAX_PDF_SIZE, <<Page(MIN_PAGE_TEXT, MAX_OCR_PIXELS, "")>>)}

\* _ocr_page: nothing for a pixmap over the limit, else the stripped OCR text
_ocr_page(page) == IF page.pixels > MAX_OCR_PIXELS THEN "" ELSE page.ocr

\* the text extract_text takes from a page: the digital text, or OCR when the
\* digital text is under 50 characters
page_text(page) ==
    IF page.text_len < MIN_PAGE_TEXT THEN _ocr_page(page) ELSE "digital"

\* text.strip() on the page texts joined by newlines: the empty pages at both ends drop
RECURSIVE StripPages(_)
StripPages(ts) ==
    IF ts = <<>> THEN <<>>
    ELSE IF Head(ts) = "" THEN StripPages(Tail(ts))
    ELSE IF ts[Len(ts)] = "" THEN StripPages(SubSeq(ts, 1, Len(ts) - 1))
    ELSE ts

\* extract_text: the page texts, and nothing when fitz or OCR raises
extract_text(doc) ==
    IF ~doc.readable THEN <<>>
    ELSE IF \E i \in 1..Len(doc.pages) : page_text(doc.pages[i]) = OcrRaises THEN <<>>
    ELSE StripPages([i \in 1..Len(doc.pages) |-> page_text(doc.pages[i])])

QuestionTexts == {<<>>, <<" ">>, <<" ", "A">>}

\* a question record: "id" and "question" may each be missing
QuestionRecords ==
    [id : {"1"}, question : QuestionTexts] \cup [question : QuestionTexts]
    \cup [id : {"1"}] \cup {[k \in {} |-> ""]}

QuestionLists(n) == SeqsUpTo(QuestionRecords, n)

\* an array element that is a JSON string or number, not an object
Scalar == [scalar |-> "1"]
IsDict(q) == "scalar" \notin DOMAIN q

\* the values of a parsed JSON object
ListValue(l) == [type |-> "list", items |-> l]
StrValue(t) == [type |-> "str", items |-> t]
OtherValue == [type |-> "other", items |-> <<>>]

\* a parsed Extractor response: None, an array, or an object (its pairs in order)
RawNone == [kind |-> "none", value |-> <<>>]
RawList(l) == [kind |-> "list", value |-> l]
RawDict(pairs) == [kind |-> "dict", value |-> pairs]

ExtractorResponses(n) ==
    {RawNone, RawDict(<<>>),
     RawDict(<<<<"1", StrValue(<<"a">>)>>, <<"2", StrValue(<<>>)>>>>),
     RawDict(<<<<"1", StrValue(<<"a">>)>>, <<"count", OtherValue>>>>),
     RawDict(<<<<"questions", StrValue(<<"a">>)>>>>)}
    \cup {RawList(l) : l \in QuestionLists(n)}
    \cup {RawDict(<<<<"questions", ListValue(l)>>>>) : l \in QuestionLists(n)}
    \cup {RawDict(<<<<"questions", OtherValue>>, <<"exam_questions", ListValue(l)>>>>) :
            l \in QuestionLists(n)}

\* raw[key] when key is in raw and raw[key] is a list
HasList(pairs, key) ==
    \E i \in 1..Len(pairs) : pairs[i][1] = key /\ pairs[i][2].type = "list"
ListAt(pairs, key) ==
    LET i == CHOOSE j \in 1..Len(pairs) : pairs[j][1] = key /\ pairs[j][2].type = "list"
    IN  pairs[i][2].items

\* get_questions, given the parsed response raw
get_questions(text, raw) ==
    IF text = <<>> THEN <<>>
    ELSE IF raw.kind = "none" THEN <<>>
    ELSE IF raw.kind = "list" THEN raw.value
    ELSE IF HasList(raw.value, "questions") THEN ListAt(raw.value, "questions")
    ELSE IF HasList(raw.value, "exam_questions") THEN ListAt(raw.value, "exam_questions")
    ELSE IF \A i \in 1..Len(raw.value) : raw.value[i][2].type = "str"
    THEN [i \in 1..Len(raw.value) |->
            [id |-> raw.value[i][1], question |-> raw.value[i][2].items]]
    ELSE <<>>

-----------------------------------------------------------------------------
(* ExamPipeline.run *)

\* the Scorer responses and generator replies drawn while whole documents run
RunReplies ==
    {<<"Score:", " ", "20", "\n", "Justification:", " ", "x">>,
     <<"Score:", " ", "21", "\n", "Justification:", " ", "x">>,
     <<"Score:", " ", "21">>,
     <<"x">>}
RephraserReplies == {<<"A", " ">>, <<"b">>}

\* run's locals before their first assignment, and the module globals at import
Fresh ==
    /\ questions = <<>>
    /\ q_index = 1
    /\ results = <<>>
    /\ original = <<>>
    /\ score = 0
    /\ justification = <<>>
    /\ final = <<>>
    /\ status = OriginalKept
    /\ attempt = 0
    /\ candidate = <<>>
    /\ bi_encoder = None
    /\ cross_encoder = None
    /\ txt = <<>>
    /\ rephrase_log = <<>>
    /\ gate_calls = 0
    /\ gate_accepts = 0
    /\ last_gate = <<>>
    /\ calls = <<>>
    /\ loads = [bi |-> 0, cross |-> 0]

\* what the /analyze handler has done: nothing when run is called without it
NoHandler == [state |-> "none", results |-> <<>>, error |-> None, raised |-> FALSE]
Pending == [state |-> "pending", results |-> <<>>, error |-> None, raised |-> FALSE]
Sent(rs, error, raised) ==
    [state |-> "sent", results |-> rs, error |-> error, raised |-> raised]

\* run is called with a document
Init ==
    /\ pc = "start"
    /\ file_bytes \in Documents
    /\ response = NoHandler
    /\ Fresh

\* if len(file_bytes) >= MAX_PDF_SIZE
TooLarge_Inclusive(n) == n >= MAX_PDF_SIZE

\* if len(file_bytes) > MAX_PDF_SIZE
TooLarge(n) == n > MAX_PDF_SIZE

\* a skipped question leaving the loop where it is
Continue_Stuck(i) == i

\* continue: the loop goes to the next question
Continue(i) == i + 1

\* if score >= 20
NeedsRephrase_AtThreshold(sc) == sc >= SCORE_THRESHOLD

\* if score > 20
NeedsRephrase(sc) == sc > SCORE_THRESHOLD

\* the inner loop running one attempt too many
LoopContinues_OneMore(accepted, k) == ~accepted /\ k <= MAX_ATTEMPTS

\* the inner loop without its break
LoopContinues_NoBreak(accepted, k) == k < MAX_ATTEMPTS

\* the inner for loop goes on to attempt k: no break, and k in range(MAX_ATTEMPTS)
LoopContinues(accepted, k) == ~accepted /\ k < MAX_ATTEMPTS

\* run without the status change after the inner loop
FinalStatus_Unchanged(sc, st) == st

\* if status == "Original Kept": status = "Manual Review Required", under score > 20
FinalStatus(sc, st) ==
    IF NeedsRephrase(sc) /\ st = OriginalKept THEN ManualReview ELSE st

\* results.insert(0, record)
Appended_AtFront(rs, rec) == <<rec>> \o rs

\* results.append(record)
Appended(rs, rec) == Append(rs, rec)

\* the size check, extract_text and get_questions
RunBegin(responses) ==
    /\ pc = "start"
    /\ \/ /\ TooLarge(file_bytes.len)
          /\ pc' = "done"
          /\ UNCHANGED <<questions, calls>>
       \/ /\ ~TooLarge(file_bytes.len)
          /\ extract_text(file_bytes) = <<>>
          /\ pc' = "done"
          /\ calls' = Append(calls, "extract_text")
          /\ UNCHANGED questions
       \/ /\ ~TooLarge(file_bytes.len)
          /\ extract_text(file_bytes) # <<>>
          /\ \E raw \in responses :
                questions' = get_questions(extract_text(file_bytes), raw)
          /\ pc' = "loop"
          /\ calls' = calls \o <<"extract_text", "Extractor">>
    /\ UNCHANGED <<file_bytes, q_index, results, original, score, justification,
                   final, status, attempt, candidate, bi_encoder, cross_encoder,
                   txt, rephrase_log, gate_calls, gate_accepts, last_gate, loads,
                   response>>

\* the calls run makes before its loop
BeforeLoop(c) == c \in {"extract_text", "Extractor"}

\* for q in questions: the next question, skipped when its text is empty or missing
RunNext ==
    /\ pc = "loop"
    /\ q_index <= Len(questions)
    /\ IsDict(questions[q_index])
    /\ original' = Get(questions[q_index], "question", <<>>)
    /\ \/ /\ original' = <<>>
          /\ q_index' = Continue(q_index)
          /\ UNCHANGED <<pc, txt, rephrase_log, gate_calls, gate_accepts, last_gate,
                         calls>>
       \/ /\ original' # <<>>
          /\ pc' = "score"
          /\ txt' = <<>>
          /\ rephrase_log' = <<>>
          /\ gate_calls' = 0
          /\ gate_accepts' = 0
          /\ last_gate' = <<>>
          /\ calls' = SelectSeq(calls, BeforeLoop)
          /\ UNCHANGED q_index
    /\ UNCHANGED <<file_bytes, questions, results, score, justification, final,
                   status, attempt, candidate, bi_encoder, cross_encoder, loads,
                   response>>

\* score_question and the assignments before the inner loop
RunScore(replies) ==
    /\ pc = "score"
    /\ \E t \in replies :
          /\ txt' = t
          /\ score' = score_question(t).score
          /\ justification' = score_question(t).justification
    /\ final' = original
    /\ status' = OriginalKept
    /\ attempt' = 0
    /\ pc' = IF NeedsRephrase(score') /\ LoopContinues(FALSE, 0)
             THEN "rephrase" ELSE "append"
    /\ calls' = Append(calls, "Scorer")
    /\ UNCHANGED <<file_bytes, questions, q_index, results, original, candidate,
                   bi_encoder, cross_encoder, rephrase_log, gate_calls,
                   gate_accepts, last_gate, loads, response>>

\* candidate = self.rephrase(original, score, justification, attempt=attempt)
RunRephrase ==
    /\ pc = "rephrase"
    /\ \E content \in RephraserReplies :
          LET r == rephrase(original, score, justification, attempt, content)
          IN  /\ candidate' = r.candidate
              /\ rephrase_log' =
                    Append(rephrase_log, [attempt |-> attempt, request |-> r.request])
    /\ pc' = "validate"
    /\ calls' = Append(calls, "Rephraser")
    /\ UNCHANGED <<file_bytes, questions, q_index, results, original, score,
                   justification, final, status, attempt, bi_encoder,
                   cross_encoder, txt, gate_calls, gate_accepts, last_gate, loads,
                   response>>

\* if self.validate(original, candidate): ... break; else the next attempt
RunValidate ==
    /\ pc = "validate"
    /\ \E bi \in BiScores, cross \in CrossScores :
          LET v == validate_call(bi_encoder, cross_encoder, original, candidate,
                                 bi, cross)
          IN  /\ bi_encoder' = v.bi_encoder
              /\ cross_encoder' = v.cross_encoder
              /\ last_gate' = <<v.call>>
    /\ loads' = [bi |-> Constructed(loads.bi, bi_encoder),
                 cross |-> Constructed(loads.cross, cross_encoder)]
    /\ calls' = Append(calls, "Gate")
    /\ gate_calls' = gate_calls + 1
    /\ gate_accepts' = gate_accepts + (IF last_gate'[1].result THEN 1 ELSE 0)
    /\ final' = IF last_gate'[1].result THEN candidate ELSE final
    /\ status' = IF last_gate'[1].result THEN Rephrased ELSE status
    /\ IF LoopContinues(last_gate'[1].result, attempt + 1)
       THEN attempt' = attempt + 1 /\ pc' = "rephrase"
       ELSE attempt' = attempt /\ pc' = "append"
    /\ UNCHANGED <<file_bytes, questions, q_index, results, original, score,
                   justification, candidate, txt, rephrase_log, response>>

\* the status after the inner loop, and results.append
RunAppend ==
    /\ pc = "append"
    /\ status' = FinalStatus(score, status)
    /\ results' = Appended(results,
                    [ID |-> Get(questions[q_index], "id", "?"),
                     Original_Question |-> original,
                     Score |-> score,
                     Justification |-> justification,
                     Final_Version |-> final,
                     Status |-> status'])
    /\ q_index' = q_index + 1
    /\ pc' = "loop"
    /\ UNCHANGED <<file_bytes, questions, original, score, justification, final,
                   attempt, candidate, bi_encoder, cross_encoder, txt,
                   rephrase_log, gate_calls, gate_accepts, last_gate, calls, loads,
                   response>>

\* return results
RunReturn ==
    /\ pc = "loop"
    /\ q_index > Len(questions)
    /\ pc' = "done"
    /\ UNCHANGED <<file_bytes, questions, q_index, results, original, score,
                   justification, final, status, attempt, candidate, bi_encoder,
                   cross_encoder, txt, rephrase_log, gate_calls, gate_accepts,
                   last_gate, calls, loads, response>>

RunBeginDocument == RunBegin(ExtractorResponses(MaxQuestions))
RunScoreDocument == RunScore(RunReplies)

Next ==
    \/ RunBeginDocument
    \/ RunNext
    \/ RunScoreDocument
    \/ RunRephrase
    \/ RunValidate
    \/ RunAppend
    \/ RunReturn

Spec == Init /\ [][Next]_vars

-----------------------------------------------------------------------------
(* One-question documents under every Scorer response *)

\* the Extractor returns one question, with or without text
SingleQuestionResponses ==
    {RawList(<<q>>) : q \in [id : {"1"}, question : {<<>>, <<" ", "A">>}]}

RunBeginSingle == RunBegin(SingleQuestionResponses)
RunScoreAny == RunScore(ScorerTexts)

NextScorer ==
    \/ RunBeginSingle
    \/ RunNext
    \/ RunScoreAny
    \/ RunRephrase
    \/ RunValidate
    \/ RunAppend
    \/ RunReturn

SpecScorer == Init /\ [][NextScorer]_vars

-----------------------------------------------------------------------------
(* validate called on its own, on any pair of texts *)

\* a fresh process in which run is not called
InitGate ==
    /\ pc = "idle"
    /\ file_bytes = Unreadable(0)
    /\ response = NoHandler
    /\ Fresh

\* validate called on orig and cand, to which the two models give bi and cross
Validate(orig, cand, bi, cross) ==
    LET v == validate_call(bi_encoder, cross_encoder, orig, cand, bi, cross)
    IN  /\ bi_encoder' = v.bi_encoder
        /\ cross_encoder' = v.cross_encoder
        /\ last_gate' = <<v.call>>
        /\ loads' = [bi |-> Constructed(loads.bi, bi_encoder),
                     cross |-> Constructed(loads.cross, cross_encoder)]
        /\ gate_calls' = gate_calls + 1
        /\ gate_accepts' = gate_accepts + (IF v.call.result THEN 1 ELSE 0)
        /\ UNCHANGED runVars

\* the first validate call of the process
ValidateCall ==
    /\ pc = "idle"
    /\ last_gate = <<>>
    /\ \E orig \in Texts, cand \in Texts, bi \in BiScores, cross \in CrossScores :
          Validate(orig, cand, bi, cross)

\* a later validate call on the same pair: the models give it the same scores
ValidateAgain ==
    /\ pc = "idle"
    /\ last_gate # <<>>
    /\ gate_calls < MaxValidateCalls
    /\ Validate(last_gate[1].original, last_gate[1].candidate,
                last_gate[1].bi_score, last_gate[1].cross_score)

NextGate == ValidateCall \/ ValidateAgain

SpecGate == InitGate /\ [][NextGate]_vars

-----------------------------------------------------------------------------
(* run to its end: every call returns, and run takes its next step in the end *)

\* the Extractor returns questions with text and questions without
LiveRecords == {[id |-> "1", question |-> <<" ", "A">>], [id |-> "1", question |-> <<>>]}
LiveResponses(n) == {RawList(l) : l \in SeqsUpTo(LiveRecords, n)}

RunBeginLive == RunBegin(LiveResponses(MaxQuestions))

NextLive ==
    \/ RunBeginLive
    \/ RunNext
    \/ RunScoreDocument
    \/ RunRephrase
    \/ RunValidate
    \/ RunAppend
    \/ RunReturn

SpecLive == Init /\ [][NextLive]_vars /\ WF_vars(NextLive)

-----------------------------------------------------------------------------
(* The /analyze handler and run, with the calls that raise *)

\* a scanned document whose text comes from OCR
ScannedDocument == Pdf(1, <<Page(0, MAX_OCR_PIXELS, "scan")>>)
AnalyzeDocuments == Documents \cup {ScannedDocument}

\* the Extractor returns up to two elements, each a question or not an object
AnalyzeItems == {[id |-> "1", question |-> <<" ", "A">>], Scalar}
AnalyzeResponses ==
    {RawNone, RawDict(<<<<"questions", ListValue(<<Scalar>>)>>>>)}
    \cup {RawList(l) : l \in SeqsUpTo(AnalyzeItems, 2)}

\* a request reaches /analyze, or run is called without the handler
InitAnalyze ==
    /\ \/ pc = "request" /\ response = Pending
       \/ pc = "start" /\ response = NoHandler
    /\ file_bytes \in AnalyzeDocuments
    /\ Fresh

\* the handler never taking an upload for empty
EmptyUpload_Never(n) == FALSE

\* if len(file_bytes) == 0
EmptyUpload(n) == n = 0

\* an except branch that keeps the records built so far
ExceptResults_Partial(rs) == rs

\* except Exception: results = []
ExceptResults(rs) == <<>>

\* analyze up to the call of pipeline.run
AnalyzeBegin ==
    /\ pc = "request"
    /\ IF EmptyUpload(file_bytes.len)
       THEN /\ pc' = "responded"
            /\ response' = Sent(<<>>, "Uploaded file is empty.", FALSE)
       ELSE /\ pc' = "start"
            /\ UNCHANGED response
    /\ UNCHANGED <<file_bytes, questions, q_index, results, original, score,
                   justification, final, status, attempt, candidate, bi_encoder,
                   cross_encoder, txt, rephrase_log, gate_calls, gate_accepts,
                   last_gate, calls, loads>>

\* analyze after pipeline.run returned or raised
AnalyzeRespond ==
    /\ response.state = "pending"
    /\ pc \in {"done", "raised"}
    /\ response' = IF pc = "raised"
                   THEN Sent(ExceptResults(results), None, TRUE)
                   ELSE Sent(results, None, FALSE)
    /\ pc' = "responded"
    /\ UNCHANGED <<file_bytes, questions, q_index, results, original, score,
                   justification, final, status, attempt, candidate, bi_encoder,
                   cross_encoder, txt, rephrase_log, gate_calls, gate_accepts,
                   last_gate, calls, loads>>

\* the next request of the same process: the module globals stay
AnalyzeAgain ==
    /\ pc = "responded"
    /\ pc' = "request"
    /\ response' = Pending
    /\ file_bytes' \in AnalyzeDocuments
    /\ questions' = <<>>
    /\ q_index' = 1
    /\ results' = <<>>
    /\ original' = <<>>
    /\ score' = 0
    /\ justification' = <<>>
    /\ final' = <<>>
    /\ status' = OriginalKept
    /\ attempt' = 0
    /\ candidate' = <<>>
    /\ txt' = <<>>
    /\ rephrase_log' = <<>>
    /\ gate_calls' = 0
    /\ gate_accepts' = 0
    /\ last_gate' = <<>>
    /\ calls' = <<>>
    /\ UNCHANGED <<bi_encoder, cross_encoder, loads>>

\* run leaves by an exception: nothing is returned
Raise ==
    /\ pc' = "raised"
    /\ UNCHANGED <<file_bytes, questions, q_index, results, original, score,
                   justification, final, status, attempt, candidate, txt,
                   rephrase_log, gate_calls, gate_accepts, last_gate, response>>

\* the Extractor call of get_questions raises
RunBeginRaises ==
    /\ pc = "start"
    /\ ~TooLarge(file_bytes.len)
    /\ extract_text(file_bytes) # <<>>
    /\ calls' = calls \o <<"extract_text", "Extractor">>
    /\ Raise
    /\ UNCHANGED <<bi_encoder, cross_encoder, loads>>

\* q.get on an element that is not a dict raises AttributeError
RunNextRaises ==
    /\ pc = "loop"
    /\ q_index <= Len(questions)
    /\ ~IsDict(questions[q_index])
    /\ Raise
    /\ UNCHANGED <<calls, bi_encoder, cross_encoder, loads>>

\* the Scorer call of score_question raises
RunScoreRaises ==
    /\ pc = "score"
    /\ calls' = Append(calls, "Scorer")
    /\ Raise
    /\ UNCHANGED <<bi_encoder, cross_encoder, loads>>

\* the Rephraser call of rephrase raises
RunRephraseRaises ==
    /\ pc = "rephrase"
    /\ calls' = Append(calls, "Rephraser")
    /\ Raise
    /\ UNCHANGED <<bi_encoder, cross_encoder, loads>>

\* validate raises: while it constructs the bi-encoder, while it constructs the
\* cross-encoder, or while one of the two models scores the pair
RunValidateRaises ==
    /\ pc = "validate"
    /\ \/ /\ MustLoad(bi_encoder)
          /\ UNCHANGED <<bi_encoder, cross_encoder, loads>>
       \/ /\ MustLoad(cross_encoder)
          /\ bi_encoder' = Loaded(bi_encoder, "SentenceTransformer")
          /\ loads' = [loads EXCEPT !.bi = Constructed(loads.bi, bi_encoder)]
          /\ UNCHANGED cross_encoder
       \/ /\ lower(strip(original)) # lower(strip(candidate))
          /\ bi_encoder' = Loaded(bi_encoder, "SentenceTransformer")
          /\ cross_encoder' = Loaded(cross_encoder, "CrossEncoder")
          /\ loads' = [bi |-> Constructed(loads.bi, bi_encoder),
                       cross |-> Constructed(loads.cross, cross_encoder)]
    /\ calls' = Append(calls, "Gate")
    /\ Raise

RunBeginAnalyze == RunBegin(AnalyzeResponses)

NextAnalyze ==
    \/ AnalyzeBegin
    \/ RunBeginAnalyze
    \/ RunBeginRaises
    \/ RunNext
    \/ RunNextRaises
    \/ RunScoreDocument
    \/ RunScoreRaises
    \/ RunRephrase
    \/ RunRephraseRaises
    \/ RunValidate
    \/ RunValidateRaises
    \/ RunAppend
    \/ RunReturn
    \/ AnalyzeRespond
    \/ AnalyzeAgain

SpecAnalyze == InitAnalyze /\ [][NextAnalyze]_vars

-----------------------------------------------------------------------------
(* Properties *)

\* the last record of results, and whether the counters of the current question
\* (rephrase_log, gate_calls, gate_accepts, last_gate, txt) are those of its question
LastRecord == results[Len(results)]
JustRecorded == pc \in {"loop", "done"} /\ results # <<>>

\* trimming and case-folding, stated on positions
Blank(c) == c = " " \/ c = "\n"
Inner(s) == {i \in 1..Len(s) : ~Blank(s[i])}
Trimmed(s) ==
    IF Inner(s) = {} THEN <<>>
    ELSE SubSeq(s, CHOOSE i \in Inner(s) : \A j \in Inner(s) : i <= j,
                   CHOOSE i \in Inner(s) : \A j \in Inner(s) : i >= j)
Folded(s) ==
    [i \in 1..Len(s) |-> IF s[i] = "A" THEN "a" ELSE IF s[i] = "B" THEN "b" ELSE s[i]]
SameNormalized(x, y) == Folded(Trimmed(x)) = Folded(Trimmed(y))

(* C1: every result record whose Score is at most 20 (20 included) has Status
   "Original Kept" and a Final Version equal to its Original Question. *)
C1_LowScoreKept ==
    \A i \in 1..Len(results) :
        results[i].Score <= 20 =>
            /\ results[i].Status = "Original Kept"
            /\ results[i].Final_Version = results[i].Original_Question

C1_Witness ==
    \E i \in 1..Len(results) : results[i].Score = 20

(* C2: every result record whose Score is above 20 has Status "Rephrased" or
   "Manual Review Required", never "Original Kept". *)
C2_HighScoreRemediated ==
    \A i \in 1..Len(results) :
        results[i].Score > 20 =>
            /\ results[i].Status \in {"Rephrased", "Manual Review Required"}
            /\ results[i].Status # "Original Kept"

C2_Witness ==
    /\ Len(results) = 2
    /\ results[1].Score > 20 /\ results[1].Status = "Manual Review Required"
    /\ results[2].Score > 20 /\ results[2].Status = "Rephrased"

(* C3: when a record with Status "Rephrased" has just been appended, exactly one
   validate call of its question returned True, that call was the last one made
   for it, and Final Version is the candidate of that call; a question whose sixth
   validate call is the first to accept is recorded as "Rephrased". *)
C3_RephrasedByLastGate ==
    JustRecorded =>
        /\ LastRecord.Status = "Rephrased" =>
              /\ gate_accepts = 1
              /\ last_gate # <<>>
              /\ last_gate[1].result
              /\ last_gate[1].original = LastRecord.Original_Question
              /\ last_gate[1].candidate = LastRecord.Final_Version
        /\ (gate_calls = 6 /\ last_gate[1].result) => LastRecord.Status = "Rephrased"

C3_Witness ==
    /\ JustRecorded
    /\ LastRecord.Status = "Rephrased"
    /\ gate_calls = 6
    /\ rephrase_log[6].attempt = 5

(* C4: when a record with Status "Manual Review Required" has just been appended,
   its Score is above 20, exactly 6 rephrase attempts with indices 0..5 were made
   for its question, all 6 validate calls rejected, and Final Version is the
   original question text. *)
C4_ManualAfterSixRejections ==
    (JustRecorded /\ LastRecord.Status = "Manual Review Required") =>
        /\ LastRecord.Score > 20
        /\ Len(rephrase_log) = 6
        /\ \A k \in 1..6 : rephrase_log[k].attempt = k - 1
        /\ gate_calls = 6
        /\ gate_accepts = 0
        /\ LastRecord.Final_Version = LastRecord.Original_Question

C4_Witness ==
    /\ JustRecorded
    /\ LastRecord.Status = "Manual Review Required"
    /\ ~last_gate[1].result

(* C5: in every state of run, the rephrase calls and the validate calls made so
   far for the current question each number at most 6. *)
C5_AtMostSixCalls ==
    /\ Len(rephrase_log) <= 6
    /\ gate_calls <= 6

C5_Witness ==
    /\ Len(rephrase_log) = 6
    /\ gate_calls = 6

\* the questions that are to get a record, as (id, text) pairs in order
HasText(q) == "question" \in DOMAIN q /\ q.question # <<>>
C6_Expected ==
    LET kept == SelectSeq(questions, HasText)
    IN  [i \in 1..Len(kept) |->
            <<IF "id" \in DOMAIN kept[i] THEN kept[i].id ELSE "?", kept[i].question>>]

(* C6: when run returns, its records are, in order, those of the extracted
   questions whose text is present and non-empty: one record each, with the
   question's id ("?" when it has none) and text, and none for the others. *)
C6_OneRecordPerQuestionInOrder ==
    pc = "done" =>
        [i \in 1..Len(results) |-> <<results[i].ID, results[i].Original_Question>>]
            = C6_Expected

C6_Witness ==
    /\ pc = "done"
    /\ Len(questions) = 2
    /\ Len(results) = 2
    /\ results[1].ID = results[2].ID
    /\ results[1].Original_Question # results[2].Original_Question

(* C7: validate returns True exactly when the trimmed, case-folded candidate
   differs from the trimmed, case-folded original, the bi-encoder similarity is
   at least 0.80 and the cross-encoder relevance is at least 0.75; the similarity
   is computed only when the texts differ, the relevance only when the
   similarity passed. *)
C7_GateDecision ==
    last_gate # <<>> =>
        LET g == last_gate[1]
            differs == ~SameNormalized(g.original, g.candidate)
        IN  /\ g.result <=> (differs /\ g.bi_score >= 80 /\ g.cross_score >= 75)
            /\ g.bi_used <=> differs
            /\ g.cross_used <=> (differs /\ g.bi_score >= 80)

C7_Witness ==
    /\ last_gate # <<>>
    /\ last_gate[1].bi_score = 80
    /\ last_gate[1].cross_score = 75
    /\ last_gate[1].result
    /\ last_gate[1].original = <<" ", "A">>
    /\ last_gate[1].candidate = <<"a", "b">>

(* C8: validate returns False whenever candidate and original are equal after
   trimming and case-folding, in particular on (x, x), whatever the bi-encoder
   and the cross-encoder would return for the pair. *)
C8_NoChangeRejected ==
    (last_gate # <<>> /\ SameNormalized(last_gate[1].original, last_gate[1].candidate))
        => ~last_gate[1].result

C8_Witness ==
    /\ last_gate # <<>>
    /\ last_gate[1].original = <<"a", " ">>
    /\ last_gate[1].candidate = <<" ", "A">>
    /\ last_gate[1].bi_score >= 80
    /\ last_gate[1].cross_score >= 75
    /\ ~last_gate[1].result

(* C9: the k-th generation request rephrase makes for a question carries attempt
   index k - 1 and temperature 0.2 + 0.1 * (k - 1) (in tenths, 2 + (k - 1)), so
   the indices run 0, 1, 2, ... and each temperature exceeds the one before. *)
C9_TemperatureEscalates ==
    /\ \A k \in 1..Len(rephrase_log) :
          /\ rephrase_log[k].attempt = k - 1
          /\ rephrase_log[k].request.temperature = 2 + (k - 1)
    /\ \A k \in 1..(Len(rephrase_log) - 1) :
          rephrase_log[k + 1].request.temperature > rephrase_log[k].request.temperature

C9_Witness ==
    /\ Len(rephrase_log) = 6
    /\ rephrase_log[6].request.temperature = 7

\* the fields of a Scorer response, and the states in which txt is the response
\* for the question in hand
HasScoreField(t) ==
    \E p \in 1..Len(t), d \in 1..Len(t) :
        /\ p < d
        /\ t[p] = "Score:"
        /\ t[d] \in {"0", "20", "21"}
        /\ \A k \in (p + 1)..(d - 1) : Blank(t[k])
HasJustificationField(t) ==
    \E p \in 1..Len(t), g \in 1..Len(t) :
        /\ p < g
        /\ t[p] = "Justification:"
        /\ t[g] # "\n"
        /\ \A k \in (p + 1)..(g - 1) : Blank(t[k])
Scored == pc \in {"rephrase", "validate", "append"} \/ JustRecorded

(* C10: when the Scorer's response has no "Score:" followed by digits, or no
   "Justification:" followed by text, score_question returns
   (0, "Could not parse score."), run makes no rephrase or validate call for the
   question and records it as "Original Kept" with the original as Final Version. *)
C10_MalformedScoreKeepsOriginal ==
    (Scored /\ (~HasScoreField(txt) \/ ~HasJustificationField(txt))) =>
        /\ score = 0
        /\ justification = <<"Could not parse score.">>
        /\ pc \notin {"rephrase", "validate"}
        /\ rephrase_log = <<>>
        /\ gate_calls = 0
        /\ JustRecorded =>
              /\ LastRecord.Score = 0
              /\ LastRecord.Justification = <<"Could not parse score.">>
              /\ LastRecord.Status = "Original Kept"
              /\ LastRecord.Final_Version = LastRecord.Original_Question

C10_Witness ==
    /\ pc = "done"
    /\ txt = <<"Score:", " ", "21">>
    /\ Len(results) = 1
    /\ results[1].Status = "Original Kept"

\* whether capability c is among the calls made
Called(c) == \E i \in 1..Len(calls) : calls[i] = c

\* nothing of the per-question work has happened
NothingProcessed ==
    /\ questions = <<>>
    /\ results = <<>>
    /\ txt = <<>>
    /\ rephrase_log = <<>>
    /\ gate_calls = 0
    /\ last_gate = <<>>

\* C11: a document of more than 10 * 1024 * 1024 bytes makes run return an empty
\* result list before any processing (no text extraction, no question extraction,
\* no Scorer, Rephraser or Gate call), and a document of exactly 10 * 1024 * 1024
\* bytes is not rejected by the size check: its text is extracted
C11_OversizeRejectedFirst ==
    /\ (pc # "start" /\ file_bytes.len > 10 * 1024 * 1024) =>
          pc = "done" /\ calls = <<>> /\ NothingProcessed
    /\ (pc # "start" /\ file_bytes.len = 10 * 1024 * 1024) => Called("extract_text")
C11_Witness ==
    pc = "done" /\ file_bytes.len = 10 * 1024 * 1024 + 1 /\ file_bytes.readable

\* C12: when the document is empty, or text extraction fails or yields no text,
\* the result list is empty and neither the Extractor, the Scorer, the Rephraser
\* nor the Gate is called; for a zero-length upload the /analyze handler answers
\* without calling run, so not even text extraction happens
C12_NoTextNoCalls ==
    /\ (file_bytes.len = 0 \/ extract_text(file_bytes) = <<>>) =>
          /\ pc \in {"request", "start", "done", "responded"}
          /\ NothingProcessed
          /\ response.results = <<>>
          /\ ~Called("Extractor") /\ ~Called("Scorer")
          /\ ~Called("Rephraser") /\ ~Called("Gate")
    /\ (response.state # "none" /\ file_bytes.len = 0) =>
          /\ pc \in {"request", "responded"}
          /\ calls = <<>>
          /\ pc = "responded" => response.error = "Uploaded file is empty."
C12_Witness ==
    /\ pc = "responded"
    /\ file_bytes.len = 0
    /\ response.error = "Uploaded file is empty."

(* C13: validate called again on the same pair, to which the two models give the
   same scores, decides as it did before: the first call of the process, which
   constructs the two models, and every later call, which reuses them, all
   accept the pair or all reject it. *)
C13_ValidateRepeatable == gate_accepts = 0 \/ gate_accepts = gate_calls
C13_Witness ==
    /\ gate_calls >= 2
    /\ gate_accepts = gate_calls
    /\ loads = [bi |-> 1, cross |-> 1]

(* C14: the score that score_question returns, and the Score of every result
   record, is an integer from 0 to 100, whatever the Scorer's response. *)
C14_ScoreInRange ==
    /\ score \in 0..100
    /\ \A i \in 1..Len(results) : results[i].Score \in 0..100

(* C15: get_questions returns nothing but question records, an array whose
   elements are not records giving the empty list, so that run never raises on
   what the Extractor returned. *)
C15_ExtractorNeverRaises ==
    /\ \A i \in 1..Len(questions) : IsDict(questions[i])
    /\ pc = "raised" => q_index > Len(questions) \/ IsDict(questions[q_index])

(* C16: a capability call that raises while run works on a question ends the run
   there: the step changes neither the attempt counter nor the calls counted,
   the records or the status, no further step of run follows, and the only thing
   that can follow is /analyze rendering an empty result list, whatever records
   run had built. *)
C16_FailureAbortsRun ==
    [][/\ (pc # "raised" /\ pc' = "raised") =>
              UNCHANGED <<attempt, rephrase_log, gate_calls, gate_accepts, results,
                          status, final, q_index>>
       /\ pc = "raised" =>
              /\ pc' = "responded"
              /\ response'.raised
              /\ response'.results = <<>>]_vars
C16_Witness ==
    /\ pc = "responded"
    /\ response.raised
    /\ response.results = <<>>
    /\ Len(results) = 1
    /\ attempt = 1
    /\ Len(rephrase_log) = 2

\* the calls made for the current question, in order
QuestionCalls == SelectSeq(calls, LAMBDA c : ~BeforeLoop(c))

(* C17: the calls made for one question are the Scorer once, then Rephraser and
   Gate in turn, each Rephraser call followed by one Gate call before the next
   Rephraser call; after a Gate call that accepted there is no further call; and
   the Scorer is called for a question only when every question before it is
   finished, its record appended. *)
C17_CallsInOrder ==
    /\ \A i \in 1..Len(QuestionCalls) :
          QuestionCalls[i] = IF i = 1 THEN "Scorer"
                             ELSE IF i % 2 = 0 THEN "Rephraser" ELSE "Gate"
    /\ Len(rephrase_log) - gate_calls = (IF pc = "validate" THEN 1 ELSE 0)
    /\ gate_accepts >= 1 =>
          /\ gate_accepts = 1
          /\ last_gate[1].result
          /\ pc \in {"append", "loop", "done"}
    /\ pc = "score" =>
          /\ QuestionCalls = <<>>
          /\ Len(results) = Len(SelectSeq(SubSeq(questions, 1, q_index - 1), HasText))
C17_Witness ==
    /\ pc = "append"
    /\ QuestionCalls = <<"Scorer", "Rephraser", "Gate", "Rephraser", "Gate">>
    /\ gate_accepts = 1
    /\ Len(results) = 1


Terminal == {"Original Kept", "Rephrased", "Manual Review Required"}

(* C18: when every Scorer, Rephraser and Gate call returns, run terminates, and
   by then every question with text has its one record, whose Status is one of
   the three terminal statuses; so it is when the Gate rejects every candidate. *)
C18_RunTerminates ==
    <>(/\ pc = "done"
       /\ Len(results) = Len(SelectSeq(questions, HasText))
       /\ \A i \in 1..Len(results) : results[i].Status \in Terminal)
C18_Witness ==
    /\ pc = "done"
    /\ Len(results) = 2
    /\ \A i \in 1..Len(results) : results[i].Status = "Manual Review Required"
    /\ gate_calls = 6
    /\ gate_accepts = 0

(* C19: over all the validate calls of a process, in any number of questions and
   of runs, each of the two models is constructed at most once: a global that is
   not None has been constructed exactly once and is never None again, and once
   a validate call has returned both globals are set, even when that call
   rejected the pair at the comparison of the texts. *)
C19_ModelsConstructedOnce ==
    /\ loads.bi = (IF bi_encoder = None THEN 0 ELSE 1)
    /\ loads.cross = (IF cross_encoder = None THEN 0 ELSE 1)
    /\ last_gate # <<>> => bi_encoder # None /\ cross_encoder # None
C19_Witness ==
    /\ gate_calls = 2
    /\ ~last_gate[1].bi_used
    /\ bi_encoder = "SentenceTransformer"
    /\ cross_encoder = "CrossEncoder"
    /\ loads = [bi |-> 1, cross |-> 1]
    /\ response.state = "pending"

(* C20: the Final Version of every record with Status "Rephrased" differs from
   its Original Question once both are trimmed and case-folded; a Final Version
   equal to the original up to case and outer whitespace is found only under
   "Original Kept" and "Manual Review Required". *)
C20_RephrasedDiffers ==
    \A i \in 1..Len(results) :
        /\ results[i].Status = "Rephrased" =>
              ~SameNormalized(results[i].Final_Version, results[i].Original_Question)
        /\ SameNormalized(results[i].Final_Version, results[i].Original_Question) =>
              results[i].Status \in {"Original Kept", "Manual Review Required"}
C20_Witness ==
    /\ pc = "done"
    /\ Len(results) = 1
    /\ results[1].Status = "Rephrased"
    /\ results[1].Original_Question = <<" ", "A">>
    /\ results[1].Final_Version = <<"b">>

=============================================================================
